---------------------------- MODULE Spec2Model ----------------------------
(***************************************************************************)
(* Locale tree synchronisation (sync_en_from_fr_with_old.py) and its       *)
(* validator (verify_i18n_sync.py).                                        *)
(*                                                                         *)
(* Texts are sequences of one-character strings.  A JSON value is a record *)
(* [kind, keys, kids, txt]: kind is "str", "num", "null", "map" or "seq";  *)
(* a mapping keeps its keys in insertion order in keys, with kids[i] the   *)
(* value of keys[i]; a sequence keeps its items in kids; a string leaf     *)
(* keeps its characters in txt.  Python's None is the "null" value.        *)
(***************************************************************************)
EXTENDS Integers, Sequences, FiniteSets, TLC

VARIABLES
    fr_data,      \* sync: the reference tree
    en_old_data,  \* sync: the legacy tree
    pc,           \* sync: "idle" | "visit" | "attempt" | "done"
    work,         \* sync: the leaf visits of the traversal, in order
    pos,          \* sync: index in work of the current leaf visit
    results,      \* sync: the value returned by each finished leaf visit
    stats,        \* sync: the stats dict
    attempt,      \* sync: translate_text's loop variable
    calls,        \* sync: every attempt made: [path_keys, outcome], outcome "ok"
                  \*       when translate_text returned its result, else "failed"
    warnings,     \* sync: path_keys of every leaf whose failure was printed
    events,       \* sync: provider calls and sleeps, in order
    en_new_data,  \* sync: the tree returned to main ("null" until then)
    guard,        \* placeholder guard run: [pc, text, protected, ph_map, restored]
    check         \* validator run: [pc, fr_data, en_data, common, missing, extra, issues, status]

syncVars == <<fr_data, en_old_data, pc, work, pos, results, stats, attempt,
              calls, warnings, events, en_new_data>>
vars == <<fr_data, en_old_data, pc, work, pos, results, stats, attempt,
          calls, warnings, events, en_new_data, guard, check>>

(***************************************************************************)
(* Bounds of the model.                                                    *)
(***************************************************************************)
MaxPieces == 5
MaxRefNodes == 3
MaxLegacyNodes == 2
MaxFrNodes == 3
MaxEnNodes == 2

(***************************************************************************)
(* Texts.                                                                  *)
(***************************************************************************)
Digits == <<"0", "1", "2", "3", "4", "5", "6", "7", "8", "9">>

\* str(i) for i >= 0
RECURSIVE DecStr(_)
DecStr(i) == IF i < 10 THEN <<Digits[i + 1]>>
             ELSE DecStr(i \div 10) \o <<Digits[(i % 10) + 1]>>

\* f"PLACEHOLDER{i}"
Stem == <<"P", "L", "A", "C", "E", "H", "O", "L", "D", "E", "R">>
Marker(i) == Stem \o DecStr(i)

\* s.startswith(old) at offset 0
StartsWith(s, old) == /\ Len(old) <= Len(s)
                      /\ SubSeq(s, 1, Len(old)) = old

\* old in s
RECURSIVE Contains(_, _)
Contains(s, old) == IF Len(s) < Len(old) THEN FALSE
                    ELSE StartsWith(s, old) \/ Contains(Tail(s), old)

\* s.replace(old, new) for a non-empty old: every non-overlapping occurrence,
\* left to right
RECURSIVE Replace(_, _, _)
Replace(s, old, new) ==
    IF Len(s) < Len(old) THEN s
    ELSE IF StartsWith(s, old)
         THEN new \o Replace(SubSeq(s, Len(old) + 1, Len(s)), old, new)
         ELSE <<Head(s)>> \o Replace(Tail(s), old, new)

\* the index of the first "}" of s at or after from, 0 when there is none
RECURSIVE NextClose(_, _)
NextClose(s, from) == IF from > Len(s) THEN 0
                      ELSE IF s[from] = "}" THEN from
                      ELSE NextClose(s, from + 1)

\* re.findall(r'\{[^\}]+\}', s), scanning from index i
RECURSIVE FindAll(_, _)
FindAll(s, i) ==
    IF i > Len(s) THEN <<>>
    ELSE IF s[i] # "{" THEN FindAll(s, i + 1)
    ELSE LET j == NextClose(s, i + 1)
         IN  IF j = 0 \/ j = i + 1 THEN FindAll(s, i + 1)
             ELSE <<SubSeq(s, i, j)>> \o FindAll(s, j + 1)

\* not s.strip(): whitespace only, or empty
IsBlank(s) == \A i \in 1..Len(s) : s[i] = " "

(***************************************************************************)
(* Placeholder guard.  placeholder_map is kept as the sequence of its      *)
(* (marker, placeholder) items in insertion order.                         *)
(***************************************************************************)
\* the loop of protect_placeholders from iteration i on (i is 0-based)
RECURSIVE ProtectLoop(_, _, _, _)
ProtectLoop(placeholders, i, protected, placeholder_map) ==
    IF i >= Len(placeholders) THEN <<protected, placeholder_map>>
    ELSE LET ph     == placeholders[i + 1]
             marker == Marker(i)
         IN  ProtectLoop(placeholders, i + 1,
                         Replace(protected, ph, marker),
                         Append(placeholder_map, <<marker, ph>>))

protect_placeholders(text) == ProtectLoop(FindAll(text, 1), 0, text, <<>>)

RECURSIVE RestoreLoop(_, _, _)
RestoreLoop(restored, placeholder_map, k) ==
    IF k > Len(placeholder_map) THEN restored
    ELSE RestoreLoop(Replace(restored, placeholder_map[k][1], placeholder_map[k][2]),
                     placeholder_map, k + 1)

restore_placeholders(text, placeholder_map) == RestoreLoop(text, placeholder_map, 1)


(***************************************************************************)
(* JSON values.                                                            *)
(***************************************************************************)
StrLeaf(s)     == [kind |-> "str",  keys |-> <<>>, kids |-> <<>>, txt |-> s]
NumLeaf        == [kind |-> "num",  keys |-> <<>>, kids |-> <<>>, txt |-> <<"1">>]
None           == [kind |-> "null", keys |-> <<>>, kids |-> <<>>, txt |-> <<>>]
MapNode(ks, vs) == [kind |-> "map", keys |-> ks,   kids |-> vs,   txt |-> <<>>]
SeqNode(vs)    == [kind |-> "seq",  keys |-> <<>>, kids |-> vs,   txt |-> <<>>]

IsDict(v) == v.kind = "map"
IsList(v) == v.kind = "seq"
IsStr(v)  == v.kind = "str"

\* key in d, and d[key], for a dict d
HasKey(d, key) == \E i \in 1..Len(d.keys) : d.keys[i] = key
Item(d, key)   == d.kids[CHOOSE i \in 1..Len(d.keys) : d.keys[i] = key]

\* f"[{i}]"
IndexSeg(i) == <<"[">> \o DecStr(i) \o <<"]">>

RECURSIVE get_nested_value(_, _)
get_nested_value(data, keys) ==
    IF keys = <<>> THEN data
    ELSE IF IsDict(data) /\ HasKey(data, Head(keys))
         THEN get_nested_value(Item(data, Head(keys)), Tail(keys))
         ELSE None

(***************************************************************************)
(* sync_structure.  Its recursion visits the leaves of fr_data in document *)
(* order; SyncVisits lists these visits, each with the path_keys and the   *)
(* en_old_data the recursion passes down to it, and SyncResult rebuilds    *)
(* the returned containers around the values the leaf visits return.       *)
(***************************************************************************)
\* the en_old_data passed to the child under key (a dict) or index i (a list)
EnOldValue(en_old, key) ==
    IF IsDict(en_old) THEN get_nested_value(en_old, <<key>>) ELSE None

EnOldItem(en_old, i) ==
    IF IsList(en_old) /\ i < Len(en_old.kids) THEN en_old.kids[i + 1] ELSE None

RECURSIVE SyncVisits(_, _, _)
RECURSIVE SyncChildren(_, _, _, _)
SyncVisits(fr, en_old, path_keys) ==
    IF IsDict(fr) \/ IsList(fr) THEN SyncChildren(fr, en_old, path_keys, 0)
    ELSE <<[path_keys |-> path_keys, fr_data |-> fr, en_old_data |-> en_old]>>

\* the iterations of the dict or list loop from the i-th child on (0-based)
SyncChildren(fr, en_old, path_keys, i) ==
    IF i >= Len(fr.kids) THEN <<>>
    ELSE (IF IsDict(fr)
          THEN SyncVisits(fr.kids[i + 1], EnOldValue(en_old, fr.keys[i + 1]),
                          Append(path_keys, <<fr.keys[i + 1]>>))
          ELSE SyncVisits(fr.kids[i + 1], EnOldItem(en_old, i),
                          Append(path_keys, IndexSeg(i))))
         \o SyncChildren(fr, en_old, path_keys, i + 1)

\* the number of leaf visits below fr
RECURSIVE VisitCount(_)
RECURSIVE VisitCountFrom(_, _)
VisitCount(fr) == IF IsDict(fr) \/ IsList(fr) THEN VisitCountFrom(fr, 1) ELSE 1
VisitCountFrom(fr, i) ==
    IF i > Len(fr.kids) THEN 0
    ELSE VisitCount(fr.kids[i]) + VisitCountFrom(fr, i + 1)

RECURSIVE SyncResult(_, _)
\* a faulty variant: the list loop stops one item short
SyncResultShort(fr, rs) ==
    IF IsDict(fr) \/ IsList(fr)
    THEN LET all == [i \in 1..Len(fr.kids) |->
                LET before == VisitCountFrom([fr EXCEPT !.kids = SubSeq(fr.kids, 1, i - 1)], 1)
                IN  SyncResult(fr.kids[i],
                               SubSeq(rs, before + 1, before + VisitCount(fr.kids[i])))]
         IN  [fr EXCEPT !.kids = IF IsList(fr) THEN SubSeq(all, 1, Len(all) - 1) ELSE all]
    ELSE rs[1]

\* the value sync_structure returns for fr when its leaf visits return rs
SyncResult(fr, rs) ==
    IF IsDict(fr) \/ IsList(fr)
    THEN [fr EXCEPT !.kids =
            [i \in 1..Len(fr.kids) |->
                LET before == VisitCountFrom([fr EXCEPT !.kids = SubSeq(fr.kids, 1, i - 1)], 1)
                IN  SyncResult(fr.kids[i],
                               SubSeq(rs, before + 1, before + VisitCount(fr.kids[i])))]]
    ELSE rs[1]

(***************************************************************************)
(* The trees a run may be given: every JSON tree of at most n nodes over   *)
(* the given leaves, mappings keyed by distinct keys of KeyList.           *)
(***************************************************************************)
KeyList == <<"a", "b">>

\* the key lists of n distinct keys; in KeyList's order only unless anyOrder
KeySeqs(n, anyOrder) ==
    {ks \in [1..n -> {KeyList[i] : i \in 1..Len(KeyList)}] :
        /\ \A i, j \in 1..n : i # j => ks[i] # ks[j]
        /\ anyOrder \/ \A i, j \in 1..n :
              i < j => \E p, q \in 1..Len(KeyList) :
                          p < q /\ KeyList[p] = ks[i] /\ KeyList[q] = ks[j]}

RECURSIVE TreesOfSize(_, _, _)
RECURSIVE ForestsOfSize(_, _, _)
\* the trees of exactly n nodes
TreesOfSize(leaves, anyOrder, n) ==
    IF n = 1
    THEN leaves \cup {MapNode(<<>>, <<>>), SeqNode(<<>>)}
    ELSE LET forests == ForestsOfSize(leaves, anyOrder, n - 1)
         IN  {SeqNode(f) : f \in forests}
             \cup UNION {{MapNode(ks, f) : ks \in KeySeqs(Len(f), anyOrder)} :
                            f \in {g \in forests : Len(g) <= Len(KeyList)}}

\* the non-empty lists of trees of n nodes in all (the empty list when n = 0)
ForestsOfSize(leaves, anyOrder, n) ==
    IF n = 0 THEN {<<>>}
    ELSE UNION {{<<t>> \o f : t \in TreesOfSize(leaves, anyOrder, k),
                              f \in ForestsOfSize(leaves, anyOrder, n - k)} :
                    k \in 1..n}

TreesUpTo(leaves, anyOrder, n) ==
    UNION {TreesOfSize(leaves, anyOrder, k) : k \in 1..n}

\* reference texts: one with a placeholder, one blank; legacy texts: one
\* usable translation, one blank
RefLeaves    == {StrLeaf(<<"a", "{", "x", "}">>), StrLeaf(<<" ">>), NumLeaf}
LegacyLeaves == {StrLeaf(<<"b">>), StrLeaf(<<" ">>)}

RefTrees    == TreesUpTo(RefLeaves, TRUE, MaxRefNodes)
LegacyTrees == TreesUpTo(LegacyLeaves, FALSE, MaxLegacyNodes)

(***************************************************************************)
(* The translation provider: translator.translate(protected) raises or     *)
(* returns a text: here the protected text behind a "t" (a translation     *)
(* that keeps the markers).                                                *)
(***************************************************************************)
ProviderTexts(protected) == {<<"t">> \o protected}

retry == 3

(***************************************************************************)
(* The sync run: main calls sync_structure(fr_data, en_old_data, ...).     *)
(***************************************************************************)
IdleGuard == [pc |-> "idle", text |-> <<>>, protected |-> <<>>,
              ph_map |-> <<>>, restored |-> <<>>]
IdleCheck == [pc |-> "idle", fr_data |-> None, en_data |-> None,
              common |-> {}, missing |-> {}, extra |-> {}, issues |-> <<>>,
              status |-> ""]

SyncInit ==
    /\ fr_data \in RefTrees
    /\ en_old_data \in LegacyTrees \cup {fr_data}
    /\ pc = "visit"
    /\ work = SyncVisits(fr_data, en_old_data, <<>>)
    /\ pos = 1
    /\ results = <<>>
    /\ stats = [translated |-> 0, reused |-> 0, total |-> 0]
    /\ attempt = 0
    /\ calls = <<>>
    /\ warnings = <<>>
    /\ events = <<>>
    /\ en_new_data = None

Init == SyncInit /\ guard = IdleGuard /\ check = IdleCheck

\* the current leaf visit
Cur == work[pos]
Visiting == pc = "visit" /\ pos <= Len(work)

\* a faulty variant: the test of en_old_data.strip() is inverted
ReusableIfBlank(en_old) == IsStr(en_old) /\ IsBlank(en_old.txt)

\* isinstance(en_old_data, str) and en_old_data.strip()
Reusable(en_old) == IsStr(en_old) /\ ~IsBlank(en_old.txt)

\* the leaf visit returns value: the recursion goes on with the next leaf
Return(value) ==
    /\ results' = Append(results, value)
    /\ pos' = pos + 1
    /\ pc' = "visit"
    /\ attempt' = 0

\* a faulty variant: no pause after translate_text
TranslatedUnpaced(value, evs) ==
    /\ stats' = [stats EXCEPT !.translated = @ + 1]
    /\ events' = events \o evs
    /\ Return(value)

\* lines 106-109 once translate_text has returned value
Translated(value, evs) ==
    /\ stats' = [stats EXCEPT !.translated = @ + 1]
    /\ events' = events \o evs \o <<"sleep 0.3">>
    /\ Return(value)

\* a faulty variant: the reference text is returned in place of the legacy one
ReuseLeafFromRef ==
    /\ Visiting /\ IsStr(Cur.fr_data) /\ Reusable(Cur.en_old_data)
    /\ stats' = [stats EXCEPT !.total = @ + 1, !.reused = @ + 1]
    /\ Return(Cur.fr_data)
    /\ UNCHANGED <<fr_data, en_old_data, work, calls, warnings,
                   events, en_new_data, guard, check>>

\* a string leaf with a usable legacy string: reuse it
ReuseLeaf ==
    /\ Visiting /\ IsStr(Cur.fr_data) /\ Reusable(Cur.en_old_data)
    /\ stats' = [stats EXCEPT !.total = @ + 1, !.reused = @ + 1]
    /\ Return(Cur.en_old_data)
    /\ UNCHANGED <<fr_data, en_old_data, work, calls, warnings,
                   events, en_new_data, guard, check>>

\* a faulty variant: translate_text sends a blank text to the provider too
BlankLeafTranslated ==
    /\ Visiting /\ IsStr(Cur.fr_data) /\ ~Reusable(Cur.en_old_data)
    /\ IsBlank(Cur.fr_data.txt)
    /\ stats' = [stats EXCEPT !.total = @ + 1]
    /\ pc' = "attempt"
    /\ attempt' = 0
    /\ UNCHANGED <<fr_data, en_old_data, work, pos, results, calls,
                   warnings, events, en_new_data, guard, check>>

\* a string leaf without one, translate_text returning a blank text as is
BlankLeaf ==
    /\ Visiting /\ IsStr(Cur.fr_data) /\ ~Reusable(Cur.en_old_data)
    /\ IsBlank(Cur.fr_data.txt)
    /\ stats' = [stats EXCEPT !.total = @ + 1, !.translated = @ + 1]
    /\ events' = Append(events, "sleep 0.3")
    /\ Return(Cur.fr_data)
    /\ UNCHANGED <<fr_data, en_old_data, work, calls, warnings,
                   en_new_data, guard, check>>

\* a string leaf without one: translate_text enters its retry loop
BeginTranslate ==
    /\ Visiting /\ IsStr(Cur.fr_data) /\ ~Reusable(Cur.en_old_data)
    /\ ~IsBlank(Cur.fr_data.txt)
    /\ stats' = [stats EXCEPT !.total = @ + 1]
    /\ pc' = "attempt"
    /\ attempt' = 0
    /\ UNCHANGED <<fr_data, en_old_data, work, pos, results, calls,
                   warnings, events, en_new_data, guard, check>>

\* the record of the current attempt
Call(outcome) == [path_keys |-> Cur.path_keys, outcome |-> outcome]

\* a faulty variant: one attempt too many before giving up
AttemptFailedLate ==
    IF attempt < retry
    THEN /\ events' = events \o <<"translate", "sleep 0.5">>
         /\ attempt' = attempt + 1
         /\ UNCHANGED <<pc, pos, results, stats, warnings>>
    ELSE /\ warnings' = Append(warnings, Cur.path_keys)
         /\ Translated(Cur.fr_data, <<"translate">>)

\* a faulty variant: the last failure is raised to the caller
AttemptFailedRaised ==
    IF attempt < retry - 1
    THEN /\ events' = events \o <<"translate", "sleep 0.5">>
         /\ attempt' = attempt + 1
         /\ UNCHANGED <<pc, pos, results, stats, warnings>>
    ELSE /\ pc' = "raised"
         /\ events' = Append(events, "translate")
         /\ UNCHANGED <<attempt, pos, results, stats, warnings>>

\* the except branch of one attempt
AttemptFailed ==
    IF attempt < retry - 1
    THEN /\ events' = events \o <<"translate", "sleep 0.5">>
         /\ attempt' = attempt + 1
         /\ UNCHANGED <<pc, pos, results, stats, warnings>>
    ELSE /\ warnings' = Append(warnings, Cur.path_keys)
         /\ Translated(Cur.fr_data, <<"translate">>)

\* one attempt whose translate call returns the text translated
AttemptReturns(translated) ==
    /\ pc = "attempt"
    /\ calls' = Append(calls, Call("ok"))
    /\ Translated(StrLeaf(restore_placeholders(
                      translated, protect_placeholders(Cur.fr_data.txt)[2])),
                  <<"translate">>)
    /\ UNCHANGED <<fr_data, en_old_data, work, warnings, en_new_data, guard, check>>

AttemptOk ==
    /\ pc = "attempt"
    /\ \E translated \in ProviderTexts(protect_placeholders(Cur.fr_data.txt)[1]) :
          AttemptReturns(translated)

\* one attempt whose try block raises (the translate call, or the
\* restoring of a value it returned that is no text)
AttemptRaises ==
    /\ pc = "attempt"
    /\ calls' = Append(calls, Call("failed"))
    /\ AttemptFailed
    /\ UNCHANGED <<fr_data, en_old_data, work, en_new_data, guard, check>>

\* a faulty variant: every leaf is counted in total
CopyLeafCounted ==
    /\ Visiting /\ ~IsStr(Cur.fr_data)
    /\ stats' = [stats EXCEPT !.total = @ + 1]
    /\ Return(Cur.fr_data)
    /\ UNCHANGED <<fr_data, en_old_data, work, calls, warnings,
                   events, en_new_data, guard, check>>

\* a number, a boolean or null: returned as it is
CopyLeaf ==
    /\ Visiting /\ ~IsStr(Cur.fr_data)
    /\ Return(Cur.fr_data)
    /\ UNCHANGED <<fr_data, en_old_data, work, stats, calls, warnings,
                   events, en_new_data, guard, check>>

\* the outermost call returns
SyncReturn ==
    /\ pc = "visit" /\ pos > Len(work)
    /\ en_new_data' = SyncResult(fr_data, results)
    /\ pc' = "done"
    /\ UNCHANGED <<fr_data, en_old_data, work, pos, results, stats, attempt,
                   calls, warnings, events, guard, check>>

Next ==
    \/ ReuseLeaf
    \/ BlankLeaf
    \/ BeginTranslate
    \/ AttemptOk
    \/ AttemptRaises
    \/ CopyLeaf
    \/ SyncReturn

Spec == Init /\ [][Next]_vars

\* the run is one sequential call: a step that can be taken is taken
FairSpec == Spec /\ WF_vars(Next)

(***************************************************************************)
(* A run of the placeholder guard alone: protect_placeholders, then        *)
(* restore_placeholders on what it returned (no transform in between).     *)
(***************************************************************************)
SyncIdle ==
    /\ fr_data = None /\ en_old_data = None /\ pc = "idle"
    /\ work = <<>> /\ pos = 1 /\ results = <<>>
    /\ stats = [translated |-> 0, reused |-> 0, total |-> 0]
    /\ attempt = 0 /\ calls = <<>> /\ warnings = <<>>
    /\ events = <<>> /\ en_new_data = None

\* the texts of at most n pieces: braces, a letter, a digit, the marker stem
Pieces == {<<"{">>, <<"}">>, <<"x">>, <<"0">>, Stem}

RECURSIVE TextsOf(_)
TextsOf(n) == IF n = 0 THEN {<<>>}
              ELSE LET shorter == TextsOf(n - 1)
                   IN  shorter \cup {t \o p : t \in shorter, p \in Pieces}

GuardInit ==
    /\ SyncIdle /\ check = IdleCheck
    /\ \E text \in TextsOf(MaxPieces) :
          guard = [IdleGuard EXCEPT !.pc = "start", !.text = text]

GuardProtect ==
    /\ guard.pc = "start"
    /\ guard' = [guard EXCEPT !.pc = "protected",
                              !.protected = protect_placeholders(guard.text)[1],
                              !.ph_map = protect_placeholders(guard.text)[2]]
    /\ UNCHANGED <<syncVars, check>>

GuardRestore ==
    /\ guard.pc = "protected"
    /\ guard' = [guard EXCEPT !.pc = "restored",
                              !.restored = restore_placeholders(guard.protected,
                                                                guard.ph_map)]
    /\ UNCHANGED <<syncVars, check>>

GuardNext == GuardProtect \/ GuardRestore

SpecGuard == GuardInit /\ [][GuardNext]_vars

(***************************************************************************)
(* The validator (verify_i18n_sync.py).  A key path is the text the code   *)
(* builds for it.                                                          *)
(***************************************************************************)
RECURSIVE get_all_key_paths(_, _)
RECURSIVE KeyPathsFrom(_, _, _)
get_all_key_paths(data, parent_path) ==
    IF IsDict(data) \/ IsList(data) THEN KeyPathsFrom(data, parent_path, 0)
    ELSE {}

\* the paths added by the dict or list loop from the i-th child on (0-based)
KeyPathsFrom(data, parent_path, i) ==
    IF i >= Len(data.kids) THEN {}
    ELSE LET value == data.kids[i + 1]
             current_path ==
                 IF IsDict(data)
                 THEN (IF parent_path # <<>>
                       THEN parent_path \o <<".", data.keys[i + 1]>>
                       ELSE <<data.keys[i + 1]>>)
                 ELSE parent_path \o IndexSeg(i)
             below == IF IsDict(value) \/ IsList(value)
                      THEN get_all_key_paths(value, current_path)
                      ELSE {}
         IN  (IF IsDict(data) THEN {current_path} ELSE {})
             \cup below
             \cup KeyPathsFrom(data, parent_path, i + 1)

\* a faulty variant: the extra keys are all the keys of en
compare_structuresAllExtra(fr, en) ==
    LET fr_keys == get_all_key_paths(fr, <<>>)
        en_keys == get_all_key_paths(en, <<>>)
    IN  <<fr_keys \cap en_keys, fr_keys \ en_keys, en_keys>>

\* (common, missing_in_en, extra_in_en)
compare_structures(fr, en) ==
    LET fr_keys == get_all_key_paths(fr, <<>>)
        en_keys == get_all_key_paths(en, <<>>)
    IN  <<fr_keys \cap en_keys, fr_keys \ en_keys, en_keys \ fr_keys>>

\* the literals verify_values never reports
Ignored == {<<"C", "a", "l", "l", " ", "a", " ", "S", "t", "a", "r">>,
            <<"D", "a", "s", "h", "b", "o", "a", "r", "d">>,
            <<"E", "m", "a", "i", "l">>,
            <<"E", "U", "R">>,
            <<"U", "S", "D">>}

MinLen == 3

\* f"{path}: '{fr_data}' non traduit"
Issue(path, text) ==
    path \o <<":", " ", "'">> \o text
         \o <<"'", " ", "n", "o", "n", " ", "t", "r", "a", "d", "u", "i", "t">>

RECURSIVE verify_values(_, _, _)
RECURSIVE VerifyFrom(_, _, _, _)
verify_values(fr, en, path) ==
    IF IsDict(fr) /\ IsDict(en) THEN VerifyFrom(fr, en, path, 1)
    ELSE IF IsStr(fr) /\ IsStr(en)
         THEN (IF /\ fr.txt = en.txt
                  /\ Len(fr.txt) > MinLen
                  /\ ~\E x \in Ignored : Contains(fr.txt, x)
               THEN <<Issue(path, fr.txt)>>
               ELSE <<>>)
         ELSE <<>>

\* the iterations of the loop over fr_data.keys() from the i-th key on
VerifyFrom(fr, en, path, i) ==
    IF i > Len(fr.keys) THEN <<>>
    ELSE LET key == fr.keys[i]
             current_path == IF path # <<>> THEN path \o <<".", key>> ELSE <<key>>
         IN  (IF HasKey(en, key)
              THEN verify_values(fr.kids[i], Item(en, key), current_path)
              ELSE <<>>)
             \o VerifyFrom(fr, en, path, i + 1)

\* catalog texts: an untranslated word, a three-letter text, an ignored
\* literal, a text that contains one
CheckLeaves == {StrLeaf(<<"B", "o", "n", "j", "o", "u", "r">>),
                StrLeaf(<<"O", "u", "i">>),
                StrLeaf(<<"E", "m", "a", "i", "l">>),
                StrLeaf(<<"E", "m", "a", "i", "l", "s">>),
                NumLeaf}

CheckInit ==
    /\ SyncIdle /\ guard = IdleGuard
    /\ \E fr \in TreesUpTo(CheckLeaves, FALSE, MaxFrNodes) :
       \E en \in TreesUpTo(CheckLeaves, FALSE, MaxEnNodes) \cup {fr} :
          check = [IdleCheck EXCEPT !.pc = "loaded", !.fr_data = fr, !.en_data = en]

\* main: common, missing, extra = compare_structures(fr_data, en_data)
CheckCompare ==
    /\ check.pc = "loaded"
    /\ LET r == compare_structures(check.fr_data, check.en_data)
       IN  check' = [check EXCEPT !.pc = "compared",
                                  !.common = r[1], !.missing = r[2], !.extra = r[3]]
    /\ UNCHANGED <<syncVars, guard>>

\* main: issues = verify_values(fr_data, en_data), then the report
CheckReport ==
    /\ check.pc = "compared"
    /\ check' = [check EXCEPT
                    !.pc = "reported",
                    !.issues = verify_values(check.fr_data, check.en_data, <<>>),
                    !.status = IF check.missing = {} /\ check.extra = {}
                               THEN "synchronized" ELSE "issues_detected"]
    /\ UNCHANGED <<syncVars, guard>>

CheckNext == CheckCompare \/ CheckReport

SpecCheck == CheckInit /\ [][CheckNext]_vars

(***************************************************************************)
(* What the properties below speak of: the nodes of a tree by key path     *)
(* (the list of segments sync_structure calls path_keys).                  *)
(***************************************************************************)
Absent == [kind |-> "absent", keys |-> <<>>, kids |-> <<>>, txt |-> <<>>]

NodeKind(v) == IF IsDict(v) THEN "Mapping"
               ELSE IF IsList(v) THEN "Sequence"
               ELSE IF v = Absent THEN "Absent" ELSE "Leaf"

\* the child of t that segment seg addresses
ChildAt(t, seg) ==
    IF IsDict(t) /\ \E k \in 1..Len(t.keys) : <<t.keys[k]>> = seg
    THEN t.kids[CHOOSE k \in 1..Len(t.keys) : <<t.keys[k]>> = seg]
    ELSE IF IsList(t) /\ \E k \in 1..Len(t.kids) : IndexSeg(k - 1) = seg
         THEN t.kids[CHOOSE k \in 1..Len(t.kids) : IndexSeg(k - 1) = seg]
         ELSE Absent

RECURSIVE NodeAt(_, _)
NodeAt(t, path) == IF path = <<>> THEN t
                   ELSE NodeAt(ChildAt(t, Head(path)), Tail(path))

\* the path of every node of t, the root's (prefix) included
RECURSIVE PathsOf(_, _)
PathsOf(t, prefix) ==
    {prefix} \cup
    UNION {PathsOf(t.kids[k],
                   Append(prefix, IF IsDict(t) THEN <<t.keys[k]>> ELSE IndexSeg(k - 1))) :
              k \in 1..Len(t.kids)}

\* the paths of the string leaves of t, prefix being the path of t
RECURSIVE StringPathsFrom(_, _)
StringPathsFrom(t, prefix) ==
    IF IsStr(t) THEN {prefix}
    ELSE UNION {StringPathsFrom(t.kids[k],
                    Append(prefix, IF IsDict(t) THEN <<t.keys[k]>> ELSE IndexSeg(k - 1))) :
                   k \in 1..Len(t.kids)}

StringPaths(t) == StringPathsFrom(t, <<>>)

\* the attempts made for the leaf at P, and those that failed
CallsAt(P)  == {i \in 1..Len(calls) : calls[i].path_keys = P}
FailedAt(P) == {i \in CallsAt(P) : calls[i].outcome = "failed"}
Warned      == {warnings[i] : i \in 1..Len(warnings)}
Done        == pc = "done"

(***************************************************************************)
(* C1. Structure preservation: the tree sync_structure returns has a node  *)
(* of the same kind as the reference at every path of the reference, each  *)
(* mapping with the reference's keys in the reference's order, each        *)
(* sequence with the reference's length, and no other path; so             *)
(* get_all_key_paths gives the same set for both.                          *)
(***************************************************************************)
StructurePreserved ==
    Done =>
        /\ \A P \in PathsOf(fr_data, <<>>) :
              LET r == NodeAt(fr_data, P)
                  o == NodeAt(en_new_data, P)
              IN  /\ NodeKind(o) = NodeKind(r)
                  /\ o.keys = r.keys
                  /\ Len(o.kids) = Len(r.kids)
        /\ PathsOf(en_new_data, <<>>) = PathsOf(fr_data, <<>>)
        /\ get_all_key_paths(en_new_data, <<>>) = get_all_key_paths(fr_data, <<>>)

\* a two-key reference in the order b, a, merged with a one-key legacy tree
StructureWitness ==
    /\ Done
    /\ IsDict(fr_data) /\ fr_data.keys = <<"b", "a">>
    /\ IsDict(en_old_data) /\ en_old_data.keys = <<"a">>
    /\ IsStr(fr_data.kids[1]) /\ IsStr(en_old_data.kids[1])

(***************************************************************************)
(* C2, as amended. Reuse precedence: where the reference has a string at   *)
(* path P and the legacy tree has at P a string that is not blank (not     *)
(* empty after trimming), the provider is never called for P and the       *)
(* returned leaf at P is the legacy string.                                *)
(***************************************************************************)
ReusePrecedence ==
    \A P \in StringPaths(fr_data) :
        LET l == NodeAt(en_old_data, P)
        IN  (IsStr(l) /\ ~IsBlank(l.txt)) =>
                /\ CallsAt(P) = {}
                /\ Done => NodeAt(en_new_data, P) = l

(***************************************************************************)
(* C2, as stated. The same for every legacy string that is not empty.      *)
(***************************************************************************)
ReusePrecedenceNonEmpty ==
    \A P \in StringPaths(fr_data) :
        LET l == NodeAt(en_old_data, P)
        IN  (IsStr(l) /\ l.txt # <<>>) =>
                /\ CallsAt(P) = {}
                /\ Done => NodeAt(en_new_data, P) = l

\* one leaf reused from a legacy text that differs from the reference's,
\* another leaf sent to the provider
ReuseWitness ==
    /\ Done
    /\ calls # <<>>
    /\ \E P \in StringPaths(fr_data) :
          /\ IsStr(NodeAt(en_old_data, P))
          /\ ~IsBlank(NodeAt(en_old_data, P).txt)
          /\ NodeAt(en_old_data, P) # NodeAt(fr_data, P)

(***************************************************************************)
(* C3, as amended. Self-merge: sync_structure(R, R) never calls the        *)
(* provider and returns every string leaf of R as it is; total counts the  *)
(* string leaves, reused those that are not blank and translated the       *)
(* blank ones (so reused = total exactly when R has no blank string leaf). *)
(***************************************************************************)
SelfMerge ==
    en_old_data = fr_data =>
        /\ calls = <<>>
        /\ Done =>
            /\ \A P \in StringPaths(fr_data) :
                  NodeAt(en_new_data, P) = NodeAt(fr_data, P)
            /\ stats.total = Cardinality(StringPaths(fr_data))
            /\ stats.reused =
                  Cardinality({P \in StringPaths(fr_data) :
                                  ~IsBlank(NodeAt(fr_data, P).txt)})
            /\ stats.translated =
                  Cardinality({P \in StringPaths(fr_data) :
                                  IsBlank(NodeAt(fr_data, P).txt)})

(***************************************************************************)
(* C3, as stated. Self-merge: whatever the string leaves of R contain, no  *)
(* provider call, every string leaf returned as it is, and reused = total. *)
(***************************************************************************)
SelfMergeAllReused ==
    (en_old_data = fr_data /\ Done) =>
        /\ calls = <<>>
        /\ \A P \in StringPaths(fr_data) :
              NodeAt(en_new_data, P) = NodeAt(fr_data, P)
        /\ stats.reused = stats.total

\* a self-merge of a tree with a blank text and a text with a placeholder
SelfMergeWitness ==
    /\ Done
    /\ en_old_data = fr_data
    /\ stats.reused = 1
    /\ stats.translated = 1
    /\ \E P \in StringPaths(fr_data) : FindAll(NodeAt(fr_data, P).txt, 1) # <<>>

(***************************************************************************)
(* C4. Bounded retry with fallback: the provider is called at most retry   *)
(* (3) times for a leaf and never after an attempt for that leaf has       *)
(* succeeded; a leaf is warned about, once, exactly when retry attempts    *)
(* for it have failed, and the returned leaf is then the reference text    *)
(* itself; every other translated leaf still gets the provider's result.   *)
(***************************************************************************)
BoundedRetry ==
    LET strings == StringPaths(fr_data)
    IN  /\ \A i \in 1..Len(calls) : calls[i].path_keys \in strings
        /\ Len(warnings) = Cardinality(Warned)
        /\ \A P \in strings :
              /\ Cardinality(CallsAt(P)) <= retry
              /\ \A i, j \in CallsAt(P) : i < j => calls[i].outcome = "failed"
              /\ P \in Warned <=> Cardinality(FailedAt(P)) = retry
              /\ (Done /\ P \in Warned) =>
                    NodeAt(en_new_data, P) = NodeAt(fr_data, P)
              /\ (Done /\ CallsAt(P) # {} /\ P \notin Warned) =>
                    NodeAt(en_new_data, P) # NodeAt(fr_data, P)

\* a text with a placeholder falls back after three failures, and another
\* leaf is translated at its second attempt
RetryWitness ==
    /\ Done
    /\ \E P, Q \in StringPaths(fr_data) :
          /\ P \in Warned
          /\ FindAll(NodeAt(fr_data, P).txt, 1) # <<>>
          /\ NodeAt(en_new_data, P) = NodeAt(fr_data, P)
          /\ Q \notin Warned
          /\ Cardinality(CallsAt(Q)) = 2

(***************************************************************************)
(* C5. Total completion: whatever the provider does at each attempt, the   *)
(* run ends, returning a tree with every path of the reference and stats   *)
(* that account for every string leaf.  Until it has returned the run can  *)
(* take a step (no failure stops it), and every step lowers Remaining, a   *)
(* natural number: a run that keeps stepping returns within Remaining      *)
(* steps.                                                                  *)
(***************************************************************************)
Completed ==
    /\ Done
    /\ PathsOf(en_new_data, <<>>) = PathsOf(fr_data, <<>>)
    /\ stats.total = Cardinality(StringPaths(fr_data))
    /\ stats.reused + stats.translated = stats.total

\* a bound on the steps left: retry + 1 for each leaf still to finish, less
\* what the current leaf has used, and the return
Remaining ==
    (Len(work) - pos + 1) * (retry + 1)
        - (IF pc = "attempt" THEN attempt + 1 ELSE 0)
        + (IF Done THEN 0 ELSE 1)

\* some step of Next can be taken (ENABLED distributes over its disjuncts)
CanStep ==
    \/ ENABLED AttemptRaises
    \/ ENABLED SyncReturn
    \/ ENABLED CopyLeaf
    \/ ENABLED ReuseLeaf
    \/ ENABLED BlankLeaf
    \/ ENABLED BeginTranslate
    \/ ENABLED AttemptOk

Terminates ==
    /\ [](Done \/ CanStep)
    /\ [](Remaining >= 0)
    /\ [][Remaining' < Remaining]_vars
    /\ [](Done => Completed)

\* a run in which the provider failed every attempt for two leaves
TerminatesWitness ==
    /\ Completed
    /\ Len(warnings) = 2
    /\ Len(calls) = 2 * retry

(***************************************************************************)
(* C6. Stats accounting: at the end total is the number of string leaves   *)
(* of the reference, reused the number of those whose legacy counterpart   *)
(* is a string that is not blank, translated the rest; other leaves count  *)
(* nowhere.                                                                *)
(***************************************************************************)
StatsAccounting ==
    Done =>
        /\ stats.total = Cardinality(StringPaths(fr_data))
        /\ stats.reused =
              Cardinality({P \in StringPaths(fr_data) :
                              /\ IsStr(NodeAt(en_old_data, P))
                              /\ ~IsBlank(NodeAt(en_old_data, P).txt)})
        /\ stats.translated = stats.total - stats.reused

\* a reference with a number and a string, the string reused
StatsWitness ==
    /\ Done
    /\ \E P \in PathsOf(fr_data, <<>>) : NodeAt(fr_data, P) = NumLeaf
    /\ stats = [translated |-> 0, reused |-> 1, total |-> 1]
    /\ en_old_data # fr_data

(***************************************************************************)
(* C7. Placeholder round trip: restoring what protect_placeholders         *)
(* returned gives the text back, whatever the text contains.               *)
(***************************************************************************)
RoundTrip == guard.pc = "restored" => guard.restored = guard.text

(***************************************************************************)
(* Key paths as texts: dotted keys, bracketed indices.                     *)
(***************************************************************************)
RECURSIVE PathText(_)
PathText(P) ==
    IF P = <<>> THEN <<>>
    ELSE LET front == PathText(SubSeq(P, 1, Len(P) - 1))
             seg   == P[Len(P)]
         IN  IF Head(seg) = "[" \/ front = <<>> THEN front \o seg
             ELSE front \o <<".">> \o seg

\* the key path of every node of t below the root
NodePathTexts(t) == {PathText(P) : P \in PathsOf(t, <<>>) \ {<<>>}}

SameStructure(a, b) ==
    /\ PathsOf(a, <<>>) = PathsOf(b, <<>>)
    /\ \A P \in PathsOf(a, <<>>) : NodeKind(NodeAt(a, P)) = NodeKind(NodeAt(b, P))

(***************************************************************************)
(* C8. get_all_key_paths returns the key path of every node below the      *)
(* root, leaves and containers, the items of sequences included.           *)
(***************************************************************************)
AllNodesListed ==
    check.pc \in {"compared", "reported"} =>
        /\ check.common \cup check.missing = NodePathTexts(check.fr_data)
        /\ check.common \cup check.extra = NodePathTexts(check.en_data)

(***************************************************************************)
(* C9. The report says "synchronized" only for two trees of the same       *)
(* structure: a structural mismatch gives a non-empty missing or extra set *)
(* and the status "issues_detected".                                       *)
(***************************************************************************)
SynchronizedMeansIdentical ==
    check.pc = "reported" =>
        /\ check.status = "synchronized" =>
              SameStructure(check.fr_data, check.en_data)
        /\ ~SameStructure(check.fr_data, check.en_data) =>
              /\ check.missing \cup check.extra # {}
              /\ check.status = "issues_detected"

(***************************************************************************)
(* C10. verify_values gives exactly one warning for each path, through     *)
(* mappings and sequences alike, at which both trees hold the same string  *)
(* of more than three characters that is not one of the ignored literals,  *)
(* and no other warning.                                                   *)
(***************************************************************************)
WarningsExact ==
    check.pc = "reported" =>
        /\ \A i, j \in 1..Len(check.issues) :
              i # j => check.issues[i] # check.issues[j]
        /\ {check.issues[i] : i \in 1..Len(check.issues)} =
              {Issue(PathText(P), NodeAt(check.fr_data, P).txt) :
                  P \in {Q \in PathsOf(check.fr_data, <<>>)
                                  \cap PathsOf(check.en_data, <<>>) :
                            /\ IsStr(NodeAt(check.fr_data, Q))
                            /\ NodeAt(check.en_data, Q) = NodeAt(check.fr_data, Q)
                            /\ Len(NodeAt(check.fr_data, Q).txt) > MinLen
                            /\ NodeAt(check.fr_data, Q).txt \notin Ignored}}

(***************************************************************************)
(* C11. Diff symmetry: what compare_structures(A, B) reports as missing is *)
(* what compare_structures(B, A) reports as extra, what it reports as      *)
(* extra is what the other direction reports as missing, and the common    *)
(* set is the same in both directions.                                     *)
(***************************************************************************)
DiffSymmetry ==
    check.pc \in {"compared", "reported"} =>
        LET back == compare_structures(check.en_data, check.fr_data)
        IN  /\ check.missing = back[3]
            /\ check.extra = back[2]
            /\ check.common = back[1]

\* two trees each with a key path the other lacks
DiffSymmetryWitness ==
    /\ check.pc = "compared"
    /\ check.missing # {}
    /\ check.extra # {}
    /\ check.missing # check.extra

(***************************************************************************)
(* C12, as amended. Leaf provenance: in the tree sync_structure returns,   *)
(* every string leaf is the legacy string at its path copied as it is      *)
(* (when that string is not blank), or what restore_placeholders makes of  *)
(* the text the provider returned for the reference leaf at that path, or  *)
(* the reference leaf itself when that leaf is blank or every attempt for  *)
(* it failed; every other leaf is the reference leaf at its path, whatever *)
(* the legacy tree holds there.                                            *)
(***************************************************************************)
\* the attempts for the leaf at P that succeeded
OkAt(P) == {i \in CallsAt(P) : calls[i].outcome = "ok"}

\* what a successful attempt makes of the reference text
ProviderDerived(text) ==
    {StrLeaf(restore_placeholders(t, protect_placeholders(text)[2])) :
        t \in ProviderTexts(protect_placeholders(text)[1])}

LeafPaths(t) == {P \in PathsOf(t, <<>>) : NodeKind(NodeAt(t, P)) = "Leaf"}

LeafProvenance ==
    Done =>
        \A P \in LeafPaths(en_new_data) :
            LET o == NodeAt(en_new_data, P)
                r == NodeAt(fr_data, P)
                l == NodeAt(en_old_data, P)
            IN  IF IsStr(o)
                THEN /\ IsStr(r)
                     /\ \/ Reusable(l) /\ o = l /\ CallsAt(P) = {}
                        \/ /\ ~Reusable(l) /\ OkAt(P) # {}
                           /\ o \in ProviderDerived(r.txt)
                        \/ /\ ~Reusable(l) /\ IsBlank(r.txt)
                           /\ o = r /\ CallsAt(P) = {}
                        \/ /\ ~Reusable(l) /\ P \in Warned
                           /\ o = r /\ OkAt(P) = {}
                ELSE o = r

\* C12 as first stated: a string leaf is the legacy string at its path or
\* comes from the provider
LeafProvenanceStrict ==
    Done =>
        \A P \in LeafPaths(en_new_data) :
            LET o == NodeAt(en_new_data, P)
                r == NodeAt(fr_data, P)
                l == NodeAt(en_old_data, P)
            IN  IF IsStr(o)
                THEN \/ IsStr(l) /\ o = l
                     \/ /\ IsStr(r) /\ OkAt(P) # {}
                        /\ o \in ProviderDerived(r.txt)
                ELSE o = r

\* a number kept where the legacy tree holds a string, next to a text with
\* a placeholder that the provider translated
LeafProvenanceWitness ==
    /\ Done
    /\ \E P, Q \in LeafPaths(en_new_data) :
          /\ ~IsStr(NodeAt(fr_data, Q))
          /\ IsStr(NodeAt(en_old_data, Q))
          /\ NodeAt(en_new_data, Q) = NodeAt(fr_data, Q)
          /\ OkAt(P) # {}
          /\ FindAll(NodeAt(fr_data, P).txt, 1) # <<>>
          /\ NodeAt(en_new_data, P) # NodeAt(fr_data, P)

(***************************************************************************)
(* C13. The ignored literals suppress a warning by the whole value only:   *)
(* where both trees hold the same string of more than three characters at  *)
(* a path through mappings, verify_values gives no warning for it exactly  *)
(* when the string is one of the ignored literals; a string that merely    *)
(* contains one is still reported.                                         *)
(***************************************************************************)
\* the paths made of mapping keys only, which verify_values walks
KeyOnlyPaths(t) == {P \in PathsOf(t, <<>>) : \A k \in 1..Len(P) : Len(P[k]) = 1}

ExactAllowList ==
    check.pc = "reported" =>
        \A P \in KeyOnlyPaths(check.fr_data) \cap KeyOnlyPaths(check.en_data) :
            LET fr == NodeAt(check.fr_data, P)
                en == NodeAt(check.en_data, P)
            IN  (IsStr(fr) /\ en = fr /\ Len(fr.txt) > MinLen) =>
                    ((\A i \in 1..Len(check.issues) :
                          check.issues[i] # Issue(PathText(P), fr.txt))
                     <=> fr.txt \in Ignored)

(***************************************************************************)
(* C14, as amended. Pacing order: provider invocations happen one at a     *)
(* time, and each is followed by a pause before the next invocation or the *)
(* end of the merge: the retry pause (0.5) after a failed attempt that is  *)
(* not the last for its leaf, the pacing pause (0.3) after a successful    *)
(* attempt and after the last failed one.  A retry pause is followed by    *)
(* the next attempt, and the merge ends on a pacing pause.                 *)
(***************************************************************************)
\* the positions of the provider invocations in the trace of events
Invocations == {i \in 1..Len(events) : events[i] = "translate"}

\* the attempt (an index of calls) made at position i of the trace
CallOf(i) == Cardinality({j \in Invocations : j <= i})

\* the attempt k was the last for its leaf: it succeeded or was the third
LastForLeaf(k) ==
    \/ calls[k].outcome = "ok"
    \/ Cardinality({j \in CallsAt(calls[k].path_keys) : j <= k}) = retry

PacingOrder ==
    /\ Cardinality(Invocations) = Len(calls)
    /\ \A i \in Invocations :
          /\ i < Len(events)
          /\ events[i + 1] = IF LastForLeaf(CallOf(i)) THEN "sleep 0.3"
                             ELSE "sleep 0.5"
    /\ \A i \in 1..Len(events) :
          (events[i] = "sleep 0.5" /\ i < Len(events)) => events[i + 1] = "translate"
    /\ (Done /\ events # <<>>) => events[Len(events)] = "sleep 0.3"

\* C14 as first stated: the pacing pause (0.3) comes after every provider
\* invocation, before the next invocation and before the end
PacingAfterEveryInvocation ==
    \A i \in Invocations :
        /\ \A j \in Invocations :
              i < j => \E m \in (i + 1)..(j - 1) : events[m] = "sleep 0.3"
        /\ Done => \E m \in (i + 1)..Len(events) : events[m] = "sleep 0.3"

\* a leaf translated at its second attempt and another leaf translated too
PacingWitness ==
    /\ Done
    /\ \E i \in 1..Len(events) : events[i] = "sleep 0.5"
    /\ \E j, k \in 1..Len(calls) :
          /\ calls[j].path_keys # calls[k].path_keys
          /\ calls[j].outcome = "ok"

=============================================================================
